---- MODULE Spec2Model ----
(***************************************************************************)
(* Model of the DXF loading / gap detection / gap healing pipeline of      *)
(* kicad_dxf_tools.py (class KicadDxfApp).                                 *)
(*                                                                         *)
(* Lengths are integers in units of 0.0001 mm (1 mm = 10000), so that the  *)
(* default tolerance 0.001 mm is 10 and the buffer cap 0.0005 mm is 5.     *)
(* Angles are integers in degrees.  A point is a pair <<x, y>>.            *)
(*                                                                         *)
(* The shapely calls of the healer (buffer, unary_union, boundary,         *)
(* polygonize) are library code: their result is an input of the load,     *)
(* drawn from the set Kernels of the values the library interface allows.  *)
(***************************************************************************)
EXTENDS Integers, Sequences, FiniteSets, TLC

VARIABLES
    dxf_file,            \* self.dxf_file / self.dxf_file_var: index of the chosen drawing, 0 = none
    entities,            \* self.entities
    segments,            \* self.segments
    heal_gaps,           \* self.heal_gaps
    gap_tolerance,       \* self.gap_tolerance
    selected_entities,   \* self.selected_entities: entries [ent, outer] in insertion order
    selected_segments,   \* self.selected_segments: keys [ent, seg] in insertion order
    last,                \* record of the last load_and_display_dxf invocation
    app_mode,            \* self.app_mode: "zone" or "line"
    previous_mode,       \* self._previous_mode
    boundary_type_var,   \* self.boundary_type_var: "outer" or "inner"
    canvas_entities,     \* self.canvas_entities: the entity of each canvas item, in canvas order
    segment_entities,    \* self.segment_entities: the key [ent, seg] of each canvas item
    selection_list,      \* rows of the self.selection_list widget
    list_selection,      \* self.selection_list.selection(): the highlighted row, 0 = none
    rubber_band_active,  \* self.rubber_band_active
    board,               \* self.board: the nets and the items added, or NoBoard (None)
    board_file,          \* self.board_file: 0 = "", else the number of the file
    net_name_var,        \* self.net_name_var: a net name or a placeholder text
    written,             \* the file and board of the last successful pcbnew.SaveBoard
    event                \* record of the last event handler that ran, with its inputs

loadVars == <<dxf_file, entities, segments, heal_gaps, gap_tolerance, last>>
selectVars == <<selected_entities, selected_segments, selection_list, list_selection>>
canvasVars == <<canvas_entities, segment_entities, rubber_band_active>>
modeVars == <<app_mode, previous_mode, boundary_type_var>>
boardVars == <<board, board_file, net_name_var, written>>

vars == <<loadVars, selectVars, canvasVars, modeVars, boardVars, event>>

-----------------------------------------------------------------------------
(* Program constants *)

ArcSegments == 24
CircleSegments == 36
BufferCap == 5
DefaultTolerance == 10

(* Bounds of the model *)

MaxGeoms == 2        \* geometries in the boundary of the buffered union
MaxHoles == 1        \* interior rings of one polygon
MaxArea == 2         \* distinct polygon areas
MaxRaise == 2        \* position at which polygon creation may raise
MaxBox == 2          \* canvas items found in one rubber band box
MaxBoardItems == 1   \* a board holding this many added items is not processed again

-----------------------------------------------------------------------------
(* Entity model: the ezdxf entities the code reads and builds *)

Ent(t, pts, closed, center, radius, a0, a1) ==
    [type |-> t, pts |-> pts, closed |-> closed, center |-> center,
     radius |-> radius, a0 |-> a0, a1 |-> a1, bad |-> FALSE,
     ring |-> <<>>, area |-> 0]

Line(p, q) == Ent("LINE", <<p, q>>, FALSE, <<0, 0>>, 0, 0, 0)
Circle(c, r) == Ent("CIRCLE", <<>>, FALSE, c, r, 0, 0)
Arc(c, r, a0, a1) == Ent("ARC", <<>>, FALSE, c, r, a0, a1)
LwPolyline(pts, closed) == Ent("LWPOLYLINE", pts, closed, <<0, 0>>, 0, 0, 0)
Other(t) == Ent(t, <<>>, FALSE, <<0, 0>>, 0, 0, 0)
\* an entity whose attribute access raises while it is processed
Malformed(e) == [e EXCEPT !.bad = TRUE]

\* msp.add_lwpolyline(ring coords, close=True) for ring h of polygon p
\* (h = 0: the exterior, h > 0: the h-th interior)
RingPolyline(p, h) ==
    [LwPolyline(<<>>, TRUE) EXCEPT !.ring = <<p.g, p.k, h>>, !.area = p.area]

-----------------------------------------------------------------------------
(* math.cos / math.sin of a multiple of 5 degrees, times 10000 *)

Cos10k ==
    <<10000, 9962, 9848, 9659, 9397, 9063, 8660, 8192, 7660, 7071, 6428, 5736,
      5000, 4226, 3420, 2588, 1736, 872, 0, -872, -1736, -2588, -3420, -4226,
      -5000, -5736, -6428, -7071, -7660, -8192, -8660, -9063, -9397, -9659,
      -9848, -9962, -10000, -9962, -9848, -9659, -9397, -9063, -8660, -8192,
      -7660, -7071, -6428, -5736, -5000, -4226, -3420, -2588, -1736, -872, 0,
      872, 1736, 2588, 3420, 4226, 5000, 5736, 6428, 7071, 7660, 8192, 8660,
      9063, 9397, 9659, 9848, 9962>>

Cos(deg) == Cos10k[((deg % 360) \div 5) + 1]
Sin(deg) == Cos(deg + 270)

\* center + radius * (cos, sin), rounded to the length unit
PolarPoint(center, radius, deg) ==
    <<center[1] + ((radius * Cos(deg) + 5000) \div 10000),
      center[2] + ((radius * Sin(deg) + 5000) \div 10000)>>

\* zip(pts, pts[1:])
ZipPairs(pts) ==
    IF Len(pts) < 2 THEN <<>>
    ELSE [i \in 1..(Len(pts) - 1) |-> <<pts[i], pts[i + 1]>>]

-----------------------------------------------------------------------------
(* extract_segments_from_dxf *)

ArcPoints(e) ==
    LET end_angle == IF e.a1 < e.a0 THEN e.a1 + 360 ELSE e.a1
        angle_step == (end_angle - e.a0) \div ArcSegments
    IN  [i \in 1..(ArcSegments + 1) |->
            PolarPoint(e.center, e.radius, e.a0 + (i - 1) * angle_step)]

\* (variant: the first sample is not appended again)
CirclePoints_Open(e) ==
    [i \in 1..CircleSegments |->
        PolarPoint(e.center, e.radius, (i - 1) * (360 \div CircleSegments))]

CirclePoints(e) ==
    LET angle_step == 360 \div CircleSegments
        circle_pts == [i \in 1..CircleSegments |->
                          PolarPoint(e.center, e.radius, (i - 1) * angle_step)]
    IN  Append(circle_pts, circle_pts[1])

PolylinePoints(e) ==
    IF Len(e.pts) > 1
    THEN IF e.closed THEN Append(e.pts, e.pts[1]) ELSE e.pts
    ELSE <<>>

\* (variant: the segment read before the error is kept)
OnEntityError_Partial(e) ==
    IF Len(e.pts) > 1 THEN <<<<e.pts[1], e.pts[2]>>>> ELSE <<>>

\* lines 753-761: the entity raised; nothing was appended for it
OnEntityError(e) == <<>>

\* the segments one entity appends (the body of the for loop)
EntitySegments(e) ==
    IF e.bad THEN OnEntityError(e)
    ELSE CASE e.type = "LINE" -> <<<<e.pts[1], e.pts[2]>>>>
           [] e.type = "ARC" -> ZipPairs(ArcPoints(e))
           [] e.type = "CIRCLE" -> ZipPairs(CirclePoints(e))
           [] e.type = "LWPOLYLINE" -> ZipPairs(PolylinePoints(e))
           [] OTHER -> <<>>

RECURSIVE extract_segments_from_dxf(_)
extract_segments_from_dxf(msp) ==
    IF msp = <<>> THEN <<>>
    ELSE EntitySegments(Head(msp)) \o extract_segments_from_dxf(Tail(msp))

-----------------------------------------------------------------------------
(* find_close_points *)

\* endpoints list built from the segments (lines 540-543, 791-794)
Endpoints(segs) ==
    [k \in 1..(2 * Len(segs)) |->
        IF k % 2 = 1
        THEN [pt |-> segs[(k + 1) \div 2][1], seg |-> (k + 1) \div 2, end |-> "start"]
        ELSE [pt |-> segs[k \div 2][2], seg |-> k \div 2, end |-> "end"]]

\* (pt1[0]-pt2[0])**2 + (pt1[1]-pt2[1])**2
Dist2(p, q) == (p[1] - q[1]) * (p[1] - q[1]) + (p[2] - q[2]) * (p[2] - q[2])

\* (variant: only distances below half the tolerance count)
IsClose_BelowHalf(d2, tolerance) ==
    0 < d2 /\ d2 < (tolerance \div 2) * (tolerance \div 2)

\* 0 < math.sqrt(d2) < tolerance
IsClose(d2, tolerance) == 0 < d2 /\ tolerance > 0 /\ d2 < tolerance * tolerance

\* (variant: endpoints of one segment are compared too)
Comparable_Always(a, b) == TRUE

\* the test that two endpoint records are compared at all
Comparable(a, b) == a.seg # b.seg

Issue(i, j, a, b) ==
    [dist2 |-> Dist2(a.pt, b.pt), seg1 |-> a.seg, end1 |-> a.end,
     seg2 |-> b.seg, end2 |-> b.end, pt1 |-> a.pt, pt2 |-> b.pt, i |-> i, j |-> j]

\* the k-th pair of positions visited by the two loops over a list of n
\* points (lines 890-892), rows first; the inner loop takes those with i < j
LoopPair(n, k) == <<((k - 1) \div n) + 1, ((k - 1) % n) + 1>>

find_close_points(points, tolerance) ==
    LET pts == <<>> \o points
        n == Len(pts)
        Hit(k) == LET i == LoopPair(n, k)[1]
                      j == LoopPair(n, k)[2]
                  IN  /\ i < j
                      /\ Comparable(pts[i], pts[j])
                      /\ IsClose(Dist2(pts[i].pt, pts[j].pt), tolerance)
        hits == SelectSeq([k \in 1..(n * n) |-> k], Hit)
    IN  [m \in 1..Len(hits) |->
            LET i == LoopPair(n, hits[m])[1]
                j == LoopPair(n, hits[m])[2]
            IN  Issue(i, j, pts[i], pts[j])]

-----------------------------------------------------------------------------
(* Results of the shapely calls of heal_dxf_gaps.  A kernel K is one outcome *)
(* of buffer / unary_union / boundary / polygonize as the code observes it: *)
(*   bufferRaises  buffer, unary_union or .boundary raises (lines 815-819)  *)
(*   kind          "LineString", "Multi" (has .geoms) or "Other"            *)
(*   geoms         per boundary geometry: is_closed, and polygonize([geom]) *)
(*   joint         polygonize(rings), all closed rings together             *)
(*   raiseAt       k > 0: the try block raises when k-1 entities are built  *)
(* A polygon is [area, holes]: its area and its number of interior rings.   *)

PolyChoices(ma, mh) == [area : 1..ma, holes : 0..mh]
PolySeqs(ma, mh) == {<<>>} \cup {<<p>> : p \in PolyChoices(ma, mh)}
GeomChoices(ma, mh) ==
    {[closed |-> FALSE, polys |-> <<>>]}
        \cup [closed : {TRUE}, polys : PolySeqs(ma, mh)]
GeomSeqs(mg, ma, mh) == UNION {[1..n -> GeomChoices(ma, mh)] : n \in 0..mg}

\* polygons.extend(list(polygonize([geom]))) over the closed geometries
RECURSIVE RingPolygons(_, _)
RingPolygons(geoms, g) ==
    IF g > Len(geoms) THEN <<>>
    ELSE (IF geoms[g].closed
          THEN [k \in 1..Len(geoms[g].polys) |->
                   [g |-> g, k |-> k, area |-> geoms[g].polys[k].area,
                    holes |-> geoms[g].polys[k].holes]]
          ELSE <<>>) \o RingPolygons(geoms, g + 1)

JointPolygons(K) ==
    [k \in 1..Len(K.joint) |->
        [g |-> 0, k |-> k, area |-> K.joint[k].area, holes |-> K.joint[k].holes]]

\* lines 826-841: the polygons list before it is sorted
Polygons(K) ==
    CASE K.kind = "LineString" ->
            IF K.geoms[1].closed THEN RingPolygons(K.geoms, 1) ELSE <<>>
      [] K.kind = "Multi" ->
            LET each == RingPolygons(K.geoms, 1)
                rings == SelectSeq(K.geoms, LAMBDA x : x.closed)
            IN  IF each = <<>> /\ rings # <<>> THEN JointPolygons(K) ELSE each
      [] OTHER -> <<>>

\* (variant: ascending order)
StaysBefore_Ascending(q, p) == q.area <= p.area

\* key=lambda p: p.area, reverse=True: q, sorted earlier, stays before p
StaysBefore(q, p) == q.area >= p.area

\* insert p into a list sorted by area, descending, after its equals (stable)
RECURSIVE InsertByArea(_, _)
InsertByArea(sorted, p) ==
    IF sorted = <<>> THEN <<p>>
    ELSE IF StaysBefore(Head(sorted), p)
         THEN <<Head(sorted)>> \o InsertByArea(Tail(sorted), p)
         ELSE <<p>> \o sorted

\* polygons.sort(key=lambda p: p.area, reverse=True)
RECURSIVE SortByArea(_)
SortByArea(polys) ==
    IF polys = <<>> THEN <<>>
    ELSE InsertByArea(SortByArea(SubSeq(polys, 1, Len(polys) - 1)), polys[Len(polys)])

\* lines 853-862: the exterior polyline of a polygon, then one per interior
PolygonEntities(p) ==
    [h \in 1..(p.holes + 1) |-> RingPolyline(p, h - 1)]

RECURSIVE BuildHealed(_)
BuildHealed(polys) ==
    IF polys = <<>> THEN <<>>
    ELSE PolygonEntities(Head(polys)) \o BuildHealed(Tail(polys))

\* the kernels that differ in what the code can observe: the areas are only
\* compared, so they are 1..m; a closed ring without a polygon differs from
\* an open one only when no ring has a polygon
KernelOk(K) ==
    /\ K.kind = "LineString" => Len(K.geoms) = 1
    /\ K.kind = "Other" => K.geoms = <<>>
    /\ K.joint # <<>> =>
          /\ K.kind = "Multi"
          /\ RingPolygons(K.geoms, 1) = <<>>
          /\ \E g \in 1..Len(K.geoms) : K.geoms[g].closed
    /\ K.raiseAt <= 1 \/ K.raiseAt <= Len(BuildHealed(Polygons(K)))
    /\ K.bufferRaises =>
          K.kind = "Other" /\ K.raiseAt = 0
    /\ LET polys == Polygons(K)
           areas == {polys[i].area : i \in 1..Len(polys)}
       IN  areas = 1..Cardinality(areas)
    /\ K.kind = "Multi" /\ RingPolygons(K.geoms, 1) # <<>> =>
          \A g \in 1..Len(K.geoms) : K.geoms[g].closed => K.geoms[g].polys # <<>>

KernelsUpTo(mg, ma, mh, mr) ==
    {K \in [bufferRaises : BOOLEAN, kind : {"LineString", "Multi", "Other"},
            geoms : GeomSeqs(mg, ma, mh), joint : PolySeqs(ma, mh),
            raiseAt : 0..mr] : KernelOk(K)}

\* every outcome within the bounds
Kernels == {K : K \in KernelsUpTo(MaxGeoms, MaxArea, MaxHoles, MaxRaise)}

\* the outcomes with at most one boundary geometry and no interior ring
SessionKernels == {K : K \in KernelsUpTo(1, 1, 0, 1)}

-----------------------------------------------------------------------------
(* shapely.ops.linemerge, as convert_segments_to_entities uses it: the      *)
(* segments are the edges of a graph on their end points; edges that meet   *)
(* at a node of degree 2 are merged into one linestring.  Zero-length       *)
(* segments are dropped.  The order of the merged linestrings and their     *)
(* direction are the library's; here: by least segment index.               *)

MinOf(S) == CHOOSE x \in S : \A y \in S : x <= y

MergeEdges(segs) == {i \in 1..Len(segs) : segs[i][1] # segs[i][2]}

Degree(segs, p) ==
    Cardinality({i \in MergeEdges(segs) : segs[i][1] = p})
        + Cardinality({i \in MergeEdges(segs) : segs[i][2] = p})

Touches(segs, i, p) == segs[i][1] = p \/ segs[i][2] = p

\* edges merged with some edge of S in one step
MergeNeighbours(segs, S) ==
    {j \in MergeEdges(segs) :
        \E i \in S : \E p \in {segs[i][1], segs[i][2]} :
            Touches(segs, j, p) /\ Degree(segs, p) = 2}

\* n merge steps from the edge set S, by halves
RECURSIVE GrowBy(_, _, _)
GrowBy(segs, S, n) ==
    IF n = 0 THEN S
    ELSE IF n = 1 THEN S \cup MergeNeighbours(segs, S)
    ELSE LET H == GrowBy(segs, S, n \div 2)
         IN  IF H = S THEN S ELSE GrowBy(segs, H, n - (n \div 2))

\* the edges that end up in one linestring with the edges S
MergeComponent(segs, S) == GrowBy(segs, S, Len(segs))

\* one step along the edges w.rest from the point w.p
WalkStep(segs, w) ==
    LET next == {i \in w.rest : Touches(segs, i, w.p)}
    IN  IF next = {} THEN w
        ELSE LET i == MinOf(next)
                 q == IF segs[i][1] = w.p THEN segs[i][2] ELSE segs[i][1]
             IN  [rest |-> w.rest \ {i}, p |-> q, coords |-> Append(w.coords, q)]

\* n steps, by halves
RECURSIVE WalkSteps(_, _, _)
WalkSteps(segs, w, n) ==
    IF n = 0 \/ w.rest = {} THEN w
    ELSE IF n = 1 THEN WalkStep(segs, w)
    ELSE LET H == WalkSteps(segs, w, n \div 2)
         IN  IF H.rest = {} THEN H ELSE WalkSteps(segs, H, n - (n \div 2))

\* the coordinates of the linestring through the edges `rest`, from point p
WalkChain(segs, rest, p) ==
    WalkSteps(segs, [rest |-> rest, p |-> p, coords |-> <<>>], Cardinality(rest)).coords

ChainCoords(segs, comp) ==
    LET ends == {p \in UNION {{segs[i][1], segs[i][2]} : i \in comp} :
                    Degree(segs, p) # 2}
        first == MinOf(comp)
        start == IF ends = {} THEN segs[first][1]
                 ELSE LET e == MinOf({i \in comp : \E p \in ends : Touches(segs, i, p)})
                      IN  IF segs[e][1] \in ends THEN segs[e][1] ELSE segs[e][2]
    IN  <<start>> \o WalkChain(segs, comp, start)

RECURSIVE MergeFrom(_, _)
MergeFrom(segs, todo) ==
    IF todo = {} THEN <<>>
    ELSE LET comp == MergeComponent(segs, {MinOf(todo)})
         IN  <<ChainCoords(segs, comp)>> \o MergeFrom(segs, todo \ comp)

linemerge(segs) == MergeFrom(segs, MergeEdges(segs))

\* linestring.is_closed
IsClosed(coords) == Len(coords) > 1 /\ coords[1] = coords[Len(coords)]

-----------------------------------------------------------------------------
(* The original entities kept for the revert path (lines 779-781), and      *)
(* load_dxf (lines 2194-2205): Circles, then closed LWPOLYLINEs             *)

IsCircle(e) == e.type = "CIRCLE"
IsClosedPolyline(e) == e.type = "LWPOLYLINE" /\ e.closed

\* lines 599-602: closed LWPOLYLINE or closed POLYLINE
IsClosedAnyPolyline(e) == e.type \in {"LWPOLYLINE", "POLYLINE"} /\ e.closed

load_dxf(msp) == SelectSeq(msp, IsCircle) \o SelectSeq(msp, IsClosedPolyline)

-----------------------------------------------------------------------------
(* convert_segments_to_entities *)

\* lines 626-635 / 639-648: the entities made of one merged linestring
LinestringEntities(coords) ==
    IF IsClosed(coords) THEN <<LwPolyline(coords, TRUE)>>
    ELSE [i \in 1..(Len(coords) - 1) |-> Line(coords[i], coords[i + 1])]

RECURSIVE MergedEntities(_)
MergedEntities(merged) ==
    IF merged = <<>> THEN <<>>
    ELSE LinestringEntities(Head(merged)) \o MergedEntities(Tail(merged))

\* new_msp.add_circle(center, radius) for every CIRCLE of the drawing
CircleCopies(msp) ==
    LET circles == SelectSeq(msp, IsCircle)
    IN  [i \in 1..Len(circles) |-> Circle(circles[i].center, circles[i].radius)]

\* mergeRaises: linemerge or the entity construction raises (line 658)
convert_segments_to_entities(segs, msp, merged, mergeRaises) ==
    IF mergeRaises \/ \E i \in 1..Len(msp) : IsCircle(msp[i]) /\ msp[i].bad
    THEN [entities |-> SelectSeq(msp, IsCircle) \o SelectSeq(msp, IsClosedAnyPolyline),
          merged |-> FALSE]
    ELSE [entities |-> CircleCopies(msp) \o MergedEntities(merged), merged |-> TRUE]

-----------------------------------------------------------------------------
(* The drawings a DXF file may hold (the modelspace, in file order) *)

\* a closed two-point polyline 0.0004 mm long
TinyLoop(x) == LwPolyline(<<<<x, 0>>, <<x + 4, 0>>>>, TRUE)

\* the lines (0,0)-(1,0) and (1,0.0005)-(1,1)
TwoLines == <<Line(<<0, 0>>, <<10000, 0>>), Line(<<10000, 5>>, <<10000, 10000>>)>>

BaseDrawings ==
    << <<>>,
       TwoLines,
       <<LwPolyline(<<<<0, 0>>, <<100, 0>>, <<100, 100>>, <<0, 100>>>>, TRUE)>>,
       <<Circle(<<5000, 5000>>, 5000)>>,
       <<Circle(<<5000, 5000>>, 5000), Circle(<<25000, 5000>>, 5000)>>,
       <<Circle(<<5000, 5000>>, 5000), Line(<<10003, 5000>>, <<12000, 5000>>)>>,
       <<Circle(<<5000, 5000>>, 1000),
         LwPolyline(<<<<0, 0>>, <<100, 0>>, <<100, 100>>, <<0, 100>>>>, TRUE)>>,
       <<Other("TEXT"), Malformed(Line(<<0, 0>>, <<100, 0>>))>>,
       <<Malformed(LwPolyline(<<<<0, 0>>, <<50, 0>>>>, FALSE)),
         Line(<<0, 0>>, <<100, 0>>),
         LwPolyline(<<<<100, 0>>, <<100, 100>>, <<200, 100>>>>, FALSE)>>,
       <<Arc(<<0, 0>>, 1000, 0, 120), Line(<<1000, 0>>, <<2000, 0>>),
         Circle(<<5000, 5000>>, 1000)>>,
       [i \in 1..10 |-> TinyLoop(8 * i)],
       <<Circle(<<500, 500>>, 100),
         LwPolyline(<<<<0, 0>>, <<100, 0>>, <<100, 100>>, <<0, 0>>>>, TRUE),
         Line(<<0, 200>>, <<100, 200>>), Line(<<100, 202>>, <<100, 300>>)>>,
       <<TinyLoop(0), TinyLoop(8), TinyLoop(16), TinyLoop(24)>>,
       <<Line(<<0, 0>>, <<100, 0>>), Line(<<100, 0>>, <<100, 100>>),
         Line(<<100, 100>>, <<0, 100>>), Line(<<0, 100>>, <<0, 0>>)>>,
       <<Circle(<<500, 500>>, 100)>> >>

(* Drawings of two LINE entities whose nearest end points are 0.0005 mm    *)
(* apart: the first line ends (or starts) at the origin, the second starts  *)
(* (or ends) at a point 0.0005 mm from it.                                  *)

FarEnds == << <<-100, 0>>, <<-3, 0>>, <<0, 3>> >>
NearEnds == << <<5, 0>>, <<0, 5>>, <<3, 4>> >>
OtherEnds == << <<105, 0>>, <<8, 0>>, <<-100, 5>>, <<-3, 5>> >>

\* the least squared distance between an end of one segment and an end of
\* the other
NearestDist2(segs) ==
    LET ds == {Dist2(segs[1][a], segs[2][b]) : a \in 1..2, b \in 1..2}
    IN  CHOOSE x \in ds : \A y \in ds : x <= y

LinePair(far, near, other, flip1, flip2) ==
    << IF flip1 THEN Line(<<0, 0>>, far) ELSE Line(far, <<0, 0>>),
       IF flip2 THEN Line(other, near) ELSE Line(near, other) >>

\* every choice of the three points and the two directions, numbered
PairChoice(k) ==
    LET f == (k % Len(FarEnds)) + 1
        n == ((k \div Len(FarEnds)) % Len(NearEnds)) + 1
        o == ((k \div (Len(FarEnds) * Len(NearEnds))) % Len(OtherEnds)) + 1
        flips == k \div (Len(FarEnds) * Len(NearEnds) * Len(OtherEnds))
    IN  LinePair(FarEnds[f], NearEnds[n], OtherEnds[o], flips % 2 = 1, flips \div 2 = 1)

IsHalfTolerancePair(msp) == NearestDist2(<<msp[1].pts, msp[2].pts>>) = 25

PairDrawings ==
    SelectSeq(<<>> \o [k \in 1..(4 * Len(FarEnds) * Len(NearEnds) * Len(OtherEnds)) |->
                          PairChoice(k - 1)],
              IsHalfTolerancePair)

Drawings == BaseDrawings \o PairDrawings

Files == 1..Len(BaseDrawings)
PairFiles == (Len(BaseDrawings) + 1)..Len(Drawings)
AllFiles == 1..Len(Drawings)
SessionFiles == {1, 2, 3, 6, 13}

\* the tolerances the operator may enter (0.001 mm is the default)
Tolerances == {0, 3, DefaultTolerance, 20}
SessionTolerances == {3, DefaultTolerance}

\* per drawing: the extracted segments, the merged linestrings, the gaps
\* (tables, so that each is computed once)
Extracted == <<>> \o [d \in AllFiles |-> extract_segments_from_dxf(Drawings[d])]
Merged == <<>> \o [d \in AllFiles |-> linemerge(Extracted[d])]
Gaps == <<>> \o [d \in AllFiles |->
            <<>> @@ [t \in (IF d \in Files THEN Tolerances ELSE {DefaultTolerance}) |->
                        find_close_points(Endpoints(Extracted[d]), t)]]

-----------------------------------------------------------------------------
(* heal_dxf_gaps, for the segments of file d.  read2ok: the second          *)
(* ezdxf.readfile (line 777) succeeds.                                      *)

NoKernel ==
    [bufferRaises |-> FALSE, kind |-> "Other", geoms |-> <<>>, joint |-> <<>>,
     raiseAt |-> 0]

HealResult(raised, ents, gap_count, path, originals, built, buffered) ==
    [raised |-> raised, entities |-> ents, gap_count |-> gap_count, path |-> path,
     originals |-> originals, built |-> built, buffered |-> buffered]

\* (variant: half the tolerance on each side of a segment, capped)
BufferDistance_HalfTolerance(tolerance) ==
    IF tolerance \div 2 < BufferCap THEN tolerance \div 2 ELSE BufferCap

\* line 812
BufferDistance(tolerance) == IF tolerance < BufferCap THEN tolerance ELSE BufferCap

\* line 868
TooFew(healed, originals) == Len(originals) > 0 /\ 2 * Len(healed) < Len(originals)

\* (variant: the entities built before the error are returned)
OnPolygonError_Partial(originals, built) ==
    HealResult(FALSE, built, 0, "polygon_error", originals, built, TRUE)

\* lines 872-876: what the except clause returns
OnPolygonError(originals, built) ==
    HealResult(FALSE, originals, 0, "polygon_error", originals, built, TRUE)

\* (variant: the empty healed list is returned)
OnNoPolygons_ReturnsHealed(originals) ==
    HealResult(FALSE, <<>>, 0, "no_polygons", originals, <<>>, TRUE)

\* lines 863-865: no polygon could be formed
OnNoPolygons(originals) ==
    HealResult(FALSE, originals, 0, "no_polygons", originals, <<>>, TRUE)

\* lines 868-870: too few healed entities
OnTooFew(originals, healed) ==
    HealResult(FALSE, originals, 0, "too_few", originals, healed, TRUE)

\* line 878: the healed entities are accepted
OnAccepted(originals, healed, gap_count) ==
    HealResult(FALSE, healed, gap_count, "healed", originals, healed, TRUE)

heal_dxf_gaps(d, read2ok, tolerance, K) ==
    LET segs == Extracted[d]
        original_entities == IF read2ok THEN load_dxf(Drawings[d]) ELSE <<>>
        gap_count == Len(Gaps[d][tolerance])
        polygons == SortByArea(Polygons(K))
        healed_entities == BuildHealed(polygons)
    IN  IF segs = <<>>
        THEN HealResult(FALSE, <<>>, 0, "no_segments", <<>>, <<>>, FALSE)
        ELSE IF gap_count = 0
        THEN HealResult(FALSE, original_entities, 0, "no_gaps", original_entities,
                        <<>>, FALSE)
        ELSE IF K.bufferRaises
        THEN HealResult(TRUE, <<>>, 0, "buffer_error", original_entities, <<>>, TRUE)
        ELSE IF K.raiseAt > 0
        THEN OnPolygonError(original_entities,
                            SubSeq(healed_entities, 1, K.raiseAt - 1))
        ELSE IF polygons = <<>>
        THEN OnNoPolygons(original_entities)
        ELSE IF TooFew(healed_entities, original_entities)
        THEN OnTooFew(original_entities, healed_entities)
        ELSE OnAccepted(original_entities, healed_entities, gap_count)

-----------------------------------------------------------------------------
(* load_dxf_with_healing(dxf_file).  read1ok: ezdxf.readfile (line 523)     *)
(* succeeds.  The result records what the call returned or that it raised,  *)
(* whether self.segments was assigned, and which steps ran.                 *)

LoadResult(raised, ents, gap_count, assigned, path, detector, heal) ==
    [raised |-> raised, entities |-> ents, gap_count |-> gap_count,
     assigned |-> assigned, path |-> path, detector |-> detector,
     healer |-> heal # <<>>,
     buffered |-> IF heal = <<>> THEN FALSE ELSE heal[1].buffered,
     originals |-> IF heal = <<>> THEN <<>> ELSE heal[1].originals,
     built |-> IF heal = <<>> THEN <<>> ELSE heal[1].built]

\* (variant: the empty segment list is not short-cut)
NoSegments_Never(segs) == FALSE

\* line 531: if not segments
NoSegments(segs) == segs = <<>>

\* (variant: the healer is called whatever the detector found)
HealingNeeded_Always(gap_count) == gap_count >= 0

\* line 550: is the healer called at all
HealingNeeded(gap_count) == gap_count > 0

\* line 553: what is returned after the healer
AfterHealing(h, gap_count) ==
    LoadResult(FALSE, h.entities, gap_count, TRUE, h.path, TRUE, <<h>>)

\* (variant: an unreadable file loads as an empty drawing)
OnReadError_Empty == LoadResult(FALSE, <<>>, 0, FALSE, "read_error", FALSE, <<>>)

\* lines 572-575: ezdxf.readfile raised; the error is printed and re-raised
OnReadError == LoadResult(TRUE, <<>>, 0, FALSE, "read_error", FALSE, <<>>)

load_dxf_with_healing(d, read1ok, read2ok, heal, tolerance, K, mergeRaises) ==
    LET segs == Extracted[d]
        gap_count == Len(Gaps[d][tolerance])
        converted == convert_segments_to_entities(segs, Drawings[d], Merged[d],
                                                  mergeRaises)
    IN  IF ~read1ok
        THEN OnReadError
        ELSE IF NoSegments(segs)
        THEN LoadResult(FALSE, <<>>, 0, TRUE, "no_segments", FALSE, <<>>)
        ELSE IF ~heal
        THEN LoadResult(FALSE, converted.entities, 0, TRUE, "heal_off", FALSE, <<>>)
        ELSE IF HealingNeeded(gap_count)
        THEN LET h == heal_dxf_gaps(d, read2ok, tolerance, K)
             IN  IF h.raised
                 THEN LoadResult(TRUE, <<>>, 0, TRUE, h.path, TRUE, <<h>>)
                 ELSE AfterHealing(h, gap_count)
        ELSE LoadResult(FALSE, converted.entities, 0, TRUE,
                        IF converted.merged THEN "no_gaps" ELSE "merge_error",
                        TRUE, <<>>)

-----------------------------------------------------------------------------
(* Entity objects, the canvas items and the rows of the selection list.     *)
(* The maps of the application are keyed by entity objects.  An object is   *)
(* named by its position in the list it was created for, and by whether     *)
(* that list is self.entities (listed) or a list that a load has replaced.  *)

EntityId(listed, i) == [listed |-> listed, pos |-> i]

\* the entity object id, looked up in the list ents; an object of a replaced
\* list is not in it
Unlisted == Other("UNLISTED")
EntityOf(ents, id) ==
    IF id.listed /\ id.pos \in 1..Len(ents) THEN ents[id.pos] ELSE Unlisted

\* the objects of a list that is being replaced, as keys of a map
ReplacedKeys(selection) ==
    [k \in 1..Len(selection) |->
        [selection[k] EXCEPT !.ent = EntityId(FALSE, selection[k].ent.pos)]]

\* _draw_entity in zone mode (lines 1255-1326): the types that get an item
IsDrawn(e) == e.type \in {"CIRCLE", "LINE", "ARC", "LWPOLYLINE"}

ZoneItems(ents) ==
    LET Drawn(id) == IsDrawn(ents[id.pos])
    IN  SelectSeq([i \in 1..Len(ents) |-> EntityId(TRUE, i)], Drawn)

\* _draw_entity_as_segments (lines 1329-1451): the number of line items made
\* for one entity
SegmentCount(e) ==
    CASE e.type = "CIRCLE" -> CircleSegments
      [] e.type = "ARC" -> ArcSegments
      [] e.type = "LINE" -> 1
      [] e.type = "LWPOLYLINE" ->
            IF e.pts = <<>> THEN 0
            ELSE IF e.closed /\ e.pts[1] # e.pts[Len(e.pts)] THEN Len(e.pts)
            ELSE Len(e.pts) - 1
      [] OTHER -> 0

\* the keys (entity, segment index) of the items, entity by entity
RECURSIVE SegmentItemsFrom(_, _)
SegmentItemsFrom(ents, i) ==
    IF i > Len(ents) THEN <<>>
    ELSE [k \in 1..SegmentCount(ents[i]) |-> [ent |-> EntityId(TRUE, i), seg |-> k - 1]]
         \o SegmentItemsFrom(ents, i + 1)

SegmentItems(ents) == SegmentItemsFrom(ents, 1)

\* a display whose items refer to the objects of a replaced list
display_dxf_entities_Stale(ents, mode) ==
    [canvas |-> IF mode = "zone"
                THEN [k \in 1..Len(ZoneItems(ents)) |->
                         EntityId(FALSE, ZoneItems(ents)[k].pos)]
                ELSE <<>>,
     segments |-> IF mode = "line" THEN ReplacedKeys(SegmentItems(ents)) ELSE <<>>]

\* display_dxf_entities (lines 1454-1510) and redraw_entities (1513-1535):
\* both maps are emptied and the entities drawn for the current mode
display_dxf_entities(ents, mode) ==
    [canvas |-> IF mode = "zone" THEN ZoneItems(ents) ELSE <<>>,
     segments |-> IF mode = "line" THEN SegmentItems(ents) ELSE <<>>]

\* f"{x:.2f}" of a length in mm: rounded to 0.01 mm
Round2(x) == (x + 50) \div 100

Desc(text, n, at, r) == [text |-> text, n |-> n, at |-> at, r |-> r]

\* the description column of a row in zone mode (lines 1619-1628)
EntityDesc(e) ==
    CASE e.type = "CIRCLE" ->
            Desc("Circle", 0, <<Round2(e.center[1]), Round2(e.center[2])>>,
                 Round2(e.radius))
      [] e.type = "LWPOLYLINE" -> Desc("Polyline", Len(e.pts), <<0, 0>>, 0)
      [] OTHER -> Desc(e.type, 0, <<0, 0>>, 0)

\* the description column of a row in line mode (lines 1640-1650)
SegmentDesc(e, seg) ==
    CASE e.type = "CIRCLE" -> Desc("Circle segment", seg + 1, <<0, 0>>, Round2(e.radius))
      [] e.type = "LWPOLYLINE" -> Desc("Polyline segment", seg + 1, <<0, 0>>, 0)
      [] e.type = "LINE" -> Desc("Line segment", 0, <<0, 0>>, 0)
      [] e.type = "ARC" -> Desc("Arc segment", seg + 1, <<0, 0>>, 0)
      [] OTHER -> Desc(e.type, seg + 1, <<0, 0>>, 0)

EntityRow(ents, entry) ==
    [desc |-> EntityDesc(EntityOf(ents, entry.ent)),
     type |-> IF entry.outer THEN "Filled zone" ELSE "Keepout zone"]

SegmentRow(ents, key) ==
    [desc |-> SegmentDesc(EntityOf(ents, key.ent), key.seg), type |-> "Track"]

\* update_selection_list (lines 1608-1655): the rows are deleted and one row
\* is inserted per entry of the selection map of the current mode
update_selection_list(ents, mode, sel_entities, sel_segments) ==
    IF mode = "zone"
    THEN [k \in 1..Len(sel_entities) |-> EntityRow(ents, sel_entities[k])]
    ELSE [k \in 1..Len(sel_segments) |-> SegmentRow(ents, sel_segments[k])]

(* get_entity_size (lines 995-1027), in units of 0.0001: an area in mm2 or  *)
(* a length in mm, as the code mixes them                                   *)

Infinity == 1073741824

RECURSIVE SqrtBetween(_, _, _)
SqrtBetween(n, lo, hi) ==
    IF lo >= hi THEN lo
    ELSE LET mid == (lo + hi + 1) \div 2
         IN  IF mid * mid <= n THEN SqrtBetween(n, mid, hi)
             ELSE SqrtBetween(n, lo, mid - 1)

Sqrt(n) == SqrtBetween(n, 0, 46340)

MinCoord(pts, c) == MinOf({pts[k][c] : k \in 1..Len(pts)})
MaxCoord(pts, c) == -MinOf({-pts[k][c] : k \in 1..Len(pts)})

get_entity_size(e) ==
    CASE e.type = "CIRCLE" -> (((e.radius * e.radius) \div 100) * 355) \div 11300
      [] e.type = "LWPOLYLINE" ->
            IF e.pts = <<>> THEN Infinity
            ELSE ((MaxCoord(e.pts, 1) - MinCoord(e.pts, 1))
                    * (MaxCoord(e.pts, 2) - MinCoord(e.pts, 2))) \div 10000
      [] e.type = "LINE" -> Sqrt(Dist2(e.pts[1], e.pts[2]))
      [] e.type = "ARC" ->
            (e.radius * ((IF e.a1 < e.a0 THEN e.a1 + 360 ELSE e.a1) - e.a0) * 355)
                \div (113 * 180)
      [] OTHER -> Infinity

\* valid_items.sort(key=size)[0] (lines 969-973): the smallest of the items
\* (positions in the canvas order), the first of them when sizes are equal
SmallestItem(ents, canvas, items) ==
    LET size == <<>> \o [k \in 1..Len(canvas) |->
                            get_entity_size(EntityOf(ents, canvas[k]))]
    IN  CHOOSE k \in items :
            \A j \in items : size[k] < size[j] \/ (size[k] = size[j] /\ k <= j)

-----------------------------------------------------------------------------
(* The application *)

NoLoad ==
    [file |-> 0, heal |-> TRUE, tolerance |-> DefaultTolerance, read1ok |-> TRUE,
     read2ok |-> TRUE, kernel |-> NoKernel, gaps |-> 0, announced |-> FALSE,
     result |-> LoadResult(FALSE, <<>>, 0, FALSE, "none", FALSE, <<>>)]

\* a key of selected_segments / segment_entities; in an event record, the
\* entity or segment the handler acted on (NoKey: none)
SegmentKey(id, seg) == [ent |-> id, seg |-> seg]
NoKey == SegmentKey(EntityId(FALSE, 0), 0)

\* what one run of process_selections and the save after it did
NoProcess == [refused |-> "", netFound |-> FALSE, raised |-> FALSE, wrote |-> FALSE]

NoEvent ==
    [name |-> "none", key |-> NoKey, ctrl |-> FALSE, shift |-> FALSE, held |-> 0,
     had |-> FALSE, outcome |-> NoProcess, turn |-> 0]

\* self.board: None, or a board with its number of named nets and the zones,
\* rule areas and tracks added to it since pcbnew.LoadBoard
NoBoard == [loaded |-> FALSE, nets |-> 0, zones |-> 0, keepouts |-> 0, tracks |-> 0]
LoadBoard(nets) == [NoBoard EXCEPT !.loaded = TRUE, !.nets = nets]
NoWrite == [file |-> 0, board |-> NoBoard]

Init ==
    /\ dxf_file = 0
    /\ entities = <<>>
    /\ segments = <<>>
    /\ heal_gaps = TRUE
    /\ gap_tolerance = DefaultTolerance
    /\ selected_entities = <<>>
    /\ selected_segments = <<>>
    /\ last = NoLoad
    /\ app_mode = "zone"
    /\ previous_mode = "zone"
    /\ boundary_type_var = "outer"
    /\ canvas_entities = <<>>
    /\ segment_entities = <<>>
    /\ selection_list = <<>>
    /\ list_selection = 0
    /\ rubber_band_active = FALSE
    /\ board = NoBoard
    /\ board_file = 0
    /\ net_name_var = "No board loaded"
    /\ written = NoWrite
    /\ event = NoEvent

\* does this load reach the shapely calls of the healer
ReachesKernel(d, read1ok) ==
    /\ heal_gaps /\ read1ok
    /\ Extracted[d] # <<>>
    /\ Gaps[d][gap_tolerance] # <<>>

\* does this load reach linemerge
ReachesMerge(d, read1ok) ==
    /\ heal_gaps /\ read1ok
    /\ Extracted[d] # <<>>
    /\ Gaps[d][gap_tolerance] = <<>>

\* load_dxf(dxf_file) called with healing off (lines 506-507)
PlainLoad(d, read1ok) ==
    IF read1ok
    THEN LoadResult(FALSE, load_dxf(Drawings[d]), 0, FALSE, "plain", FALSE, <<>>)
    ELSE LoadResult(TRUE, <<>>, 0, FALSE, "read_error", FALSE, <<>>)

\* (variant: a load keeps the selections)
SelectionsOnLoad_Kept(selection) == selection

\* lines 494-496: the selection maps are replaced by empty ones
SelectionsOnLoad(selection) == <<>>

\* select_dxf_file with a file chosen, and load_and_display_dxf.  The
\* settings are those of the widgets when the load runs.  last records the
\* invocation: its inputs, the number of gaps the detector found (gaps), the
\* "Healed N gaps" box (announced) and what load_dxf_with_healing did.
\* lines 498-517 once the load has returned or raised with the outcome r
DisplayLoaded(d, read1ok, read2ok, K, r) ==
    LET ents == IF r.raised THEN entities ELSE r.entities
        drawn == display_dxf_entities(ents, app_mode)
        \* what is left in a selection map refers to the list the load replaces
        Left(selection) ==
            IF r.raised THEN SelectionsOnLoad(selection)
            ELSE ReplacedKeys(SelectionsOnLoad(selection))
    IN  /\ dxf_file' = d
        /\ selected_entities' = Left(selected_entities)
        /\ selected_segments' = Left(selected_segments)
        /\ entities' = ents
        /\ canvas_entities' = IF r.raised THEN canvas_entities ELSE drawn.canvas
        /\ segment_entities' = IF r.raised THEN segment_entities ELSE drawn.segments
        /\ selection_list' =
              IF r.raised THEN selection_list
              ELSE update_selection_list(ents, app_mode, selected_entities',
                                         selected_segments')
        /\ list_selection' = IF r.raised THEN list_selection ELSE 0
        /\ segments' = IF r.assigned THEN Extracted[d] ELSE segments
        /\ last' = [file |-> d, heal |-> heal_gaps, tolerance |-> gap_tolerance,
                    read1ok |-> read1ok, read2ok |-> read2ok, kernel |-> K,
                    gaps |-> IF r.detector THEN Len(Gaps[d][gap_tolerance]) ELSE 0,
                    announced |-> ~r.raised /\ r.gap_count > 0,
                    result |-> r]
        /\ UNCHANGED <<heal_gaps, gap_tolerance, modeVars, rubber_band_active,
                       boardVars>>

LoadAndDisplayDxf(d, read1ok, read2ok, K, mergeRaises) ==
    DisplayLoaded(d, read1ok, read2ok, K,
                  IF heal_gaps
                  THEN load_dxf_with_healing(d, read1ok, read2ok, heal_gaps,
                                             gap_tolerance, K, mergeRaises)
                  ELSE PlainLoad(d, read1ok))

\* the operator picks a file: select_dxf_file calls load_and_display_dxf
SelectDxfFile(files, kernels) ==
    \E d \in files, read1ok \in BOOLEAN :
        \E read2ok \in (IF ReachesKernel(d, read1ok) THEN BOOLEAN ELSE {TRUE}) :
        \E K \in (IF ReachesKernel(d, read1ok) THEN kernels ELSE {NoKernel}) :
        \E mergeRaises \in (IF ReachesMerge(d, read1ok) THEN BOOLEAN ELSE {FALSE}) :
            LoadAndDisplayDxf(d, read1ok, read2ok, K, mergeRaises)

LoadFrom(files, kernels) == SelectDxfFile(files, kernels) /\ UNCHANGED event

\* the operator edits the tolerance field
SetGapTolerance(tolerances) ==
    \E t \in tolerances :
        /\ t # gap_tolerance
        /\ gap_tolerance' = t
        /\ UNCHANGED <<dxf_file, entities, segments, heal_gaps, last, selectVars,
                       canvasVars, modeVars, boardVars, event>>

\* the operator toggles the "Heal gaps" checkbox
ToggleHealGaps ==
    /\ heal_gaps' = ~heal_gaps
    /\ UNCHANGED <<dxf_file, entities, segments, gap_tolerance, last, selectVars,
                   canvasVars, modeVars, boardVars, event>>

-----------------------------------------------------------------------------
(* Mode switch, clicks, rubber band and the selection list *)

HasEntity(selection, id) == \E k \in 1..Len(selection) : selection[k].ent = id
HasSegment(selection, key) == \E k \in 1..Len(selection) : selection[k] = key

\* self.selected_entities[entity] = boundary_type: a new key is appended, the
\* value of a present key is replaced where it stands
PutEntity(selection, id, outer) ==
    IF HasEntity(selection, id)
    THEN [k \in 1..Len(selection) |->
            IF selection[k].ent = id THEN [ent |-> id, outer |-> outer]
            ELSE selection[k]]
    ELSE Append(selection, [ent |-> id, outer |-> outer])

\* del self.selected_entities[entity]
DelEntity(selection, id) ==
    LET Other_(entry) == entry.ent # id
    IN  SelectSeq(selection, Other_)

\* self.selected_segments[segment_key] = True
PutSegment(selection, key) ==
    IF HasSegment(selection, key) THEN selection ELSE Append(selection, key)

\* del self.selected_segments[segment_key]
DelSegment(selection, key) ==
    LET Other_(k) == k # key
    IN  SelectSeq(selection, Other_)

\* (variant: the mode switch clears nothing)
ModeChanged_Never(previous, current) == FALSE

\* line 398: previous_mode is not None and previous_mode != current_mode
ModeChanged(previous, current) == previous # "none" /\ previous # current

\* a mode radio button is pressed: the variable is set and update_mode_ui
\* (lines 391-418) runs
SelectMode(m) ==
    LET changed == ModeChanged(previous_mode, m)
        drawn == display_dxf_entities(entities, m)
    IN  /\ app_mode' = m
        /\ previous_mode' = m
        /\ selected_entities' = IF changed THEN <<>> ELSE selected_entities
        /\ selected_segments' = IF changed THEN <<>> ELSE selected_segments
        /\ selection_list' =
              IF changed
              THEN update_selection_list(entities, m, selected_entities',
                                         selected_segments')
              ELSE selection_list
        /\ list_selection' = IF changed THEN 0 ELSE list_selection
        /\ canvas_entities' = IF changed THEN drawn.canvas ELSE canvas_entities
        /\ segment_entities' = IF changed THEN drawn.segments ELSE segment_entities
        /\ UNCHANGED <<loadVars, boundary_type_var, rubber_band_active, boardVars>>

\* the "Filled zone" / "Keepout zone" radio buttons, shown in zone mode only
SetBoundaryType(v) ==
    /\ app_mode = "zone"
    /\ v # boundary_type_var
    /\ boundary_type_var' = v
    /\ UNCHANGED <<loadVars, selectVars, canvasVars, app_mode, previous_mode,
                   boardVars>>

\* (variant: Ctrl toggles like a plain click)
ZoneClick_CtrlToggles(selection, id, outer, ctrl, shift) ==
    IF shift /\ ~ctrl THEN PutEntity(selection, id, outer)
    ELSE IF HasEntity(selection, id) THEN DelEntity(selection, id)
    ELSE PutEntity(selection, id, outer)

\* handle_entity_click in zone mode (lines 1197-1217)
ZoneClick(selection, id, outer, ctrl, shift) ==
    IF ctrl THEN DelEntity(selection, id)
    ELSE IF shift THEN PutEntity(selection, id, outer)
    ELSE IF HasEntity(selection, id) THEN DelEntity(selection, id)
    ELSE PutEntity(selection, id, outer)

\* (variant: a plain click toggles the segment and keeps the others)
LineClick_Toggles(selection, key, ctrl, shift) ==
    IF ctrl THEN DelSegment(selection, key)
    ELSE IF shift THEN PutSegment(selection, key)
    ELSE IF HasSegment(selection, key) THEN DelSegment(selection, key)
    ELSE PutSegment(selection, key)

\* handle_entity_click in line mode (lines 1220-1239)
LineClick(selection, key, ctrl, shift) ==
    IF ctrl THEN DelSegment(selection, key)
    ELSE IF shift THEN PutSegment(selection, key)
    ELSE IF HasSegment(selection, key) /\ Len(selection) = 1 THEN <<>>
    ELSE <<key>>

\* on_canvas_press (lines 949-975) on a spot where the canvas items `items`
\* overlap the click, in zone mode: the smallest of them is clicked
ClickedEntity(items) ==
    canvas_entities[SmallestItem(entities, canvas_entities, items)]

ClickEntity(items, ctrl, shift) ==
    /\ app_mode = "zone"
    /\ ~rubber_band_active
    /\ items # {} /\ items \subseteq 1..Len(canvas_entities)
    /\ selected_entities' =
          ZoneClick(selected_entities, ClickedEntity(items),
                    boundary_type_var = "outer", ctrl, shift)
    /\ selection_list' = update_selection_list(entities, app_mode, selected_entities',
                                               selected_segments)
    /\ list_selection' = 0
    /\ UNCHANGED <<loadVars, selected_segments, canvasVars, modeVars, boardVars>>

\* on_canvas_press (lines 976-978) in line mode: the first overlapping item
\* is clicked
ClickSegment(item, ctrl, shift) ==
    /\ app_mode = "line"
    /\ ~rubber_band_active
    /\ item \in 1..Len(segment_entities)
    /\ selected_segments' =
          LineClick(selected_segments, segment_entities[item], ctrl, shift)
    /\ selection_list' = update_selection_list(entities, app_mode, selected_entities,
                                               selected_segments')
    /\ list_selection' = 0
    /\ UNCHANGED <<loadVars, selected_entities, canvasVars, modeVars, boardVars>>

\* on_canvas_press (lines 979-991) on an empty spot: the rubber band starts,
\* and in line mode an unmodified press empties the segment selection
StartRubberBand(ctrl, shift) ==
    /\ ~rubber_band_active
    /\ LET clears == ~shift /\ ~ctrl /\ app_mode = "line"
       IN  /\ rubber_band_active' = TRUE
           /\ selected_segments' = IF clears THEN <<>> ELSE selected_segments
           /\ selection_list' =
                 IF clears
                 THEN update_selection_list(entities, app_mode, selected_entities,
                                            selected_segments')
                 ELSE selection_list
           /\ list_selection' = IF clears THEN 0 ELSE list_selection
    /\ UNCHANGED <<loadVars, selected_entities, canvas_entities, segment_entities,
                   modeVars, boardVars>>

\* the loops of select_entities_in_box (lines 1175-1187) and
\* select_segments_in_box (lines 1125-1137) over the items found in the box
RECURSIVE BoxEntities(_, _, _, _)
BoxEntities(selection, ids, outer, ctrl) ==
    IF ids = <<>> THEN selection
    ELSE BoxEntities(IF ctrl THEN DelEntity(selection, Head(ids))
                     ELSE PutEntity(selection, Head(ids), outer),
                     Tail(ids), outer, ctrl)

RECURSIVE BoxSegments(_, _, _)
BoxSegments(selection, keys, ctrl) ==
    IF keys = <<>> THEN selection
    ELSE BoxSegments(IF ctrl THEN DelSegment(selection, Head(keys))
                     ELSE PutSegment(selection, Head(keys)),
                     Tail(keys), ctrl)

\* selected_count of the two loops
BoxCount(keys, present, ctrl) ==
    IF ctrl THEN Cardinality({k \in 1..Len(keys) : present[k]}) ELSE Len(keys)

\* the item lists canvas.find_enclosed / find_overlapping may return for a
\* box over a canvas of n items, at most MaxBox of them: in stacking order,
\* which is the order of creation in zone mode, and in line mode any order
\* (selected segments are raised)
BoxItems(n, mode) ==
    {s \in UNION {[1..m -> 1..n] : m \in 0..MaxBox} :
        \A i, j \in 1..Len(s) :
            i < j => IF mode = "zone" THEN s[i] < s[j] ELSE s[i] # s[j]}

\* on_canvas_release (lines 1038-1063) with the rubber band active
OnCanvasRelease ==
    /\ rubber_band_active
    /\ rubber_band_active' = FALSE
    /\ \E ctrl \in BOOLEAN :
          IF app_mode = "zone"
          THEN \E items \in BoxItems(Len(canvas_entities), app_mode) :
                  LET ids == [k \in 1..Len(items) |-> canvas_entities[items[k]]]
                      count == BoxCount(ids, [k \in 1..Len(ids) |->
                                   HasEntity(selected_entities, ids[k])], ctrl)
                  IN  /\ selected_entities' =
                            BoxEntities(selected_entities, ids,
                                        boundary_type_var = "outer", ctrl)
                      /\ selected_segments' = selected_segments
                      /\ selection_list' =
                            IF count > 0
                            THEN update_selection_list(entities, app_mode,
                                     selected_entities', selected_segments')
                            ELSE selection_list
                      /\ list_selection' = IF count > 0 THEN 0 ELSE list_selection
          ELSE \E items \in BoxItems(Len(segment_entities), app_mode) :
                  LET keys == [k \in 1..Len(items) |-> segment_entities[items[k]]]
                      count == BoxCount(keys, [k \in 1..Len(keys) |->
                                   HasSegment(selected_segments, keys[k])], ctrl)
                  IN  /\ selected_segments' = BoxSegments(selected_segments, keys, ctrl)
                      /\ selected_entities' = selected_entities
                      /\ selection_list' =
                            IF count > 0
                            THEN update_selection_list(entities, app_mode,
                                     selected_entities', selected_segments')
                            ELSE selection_list
                      /\ list_selection' = IF count > 0 THEN 0 ELSE list_selection
    /\ UNCHANGED <<loadVars, canvas_entities, segment_entities, modeVars, boardVars>>

\* a row of the selection list is clicked: it becomes the widget's selection
\* and highlight_selected_entity (lines 2179-2183) restyles the canvas
SelectRow(row) ==
    /\ ~rubber_band_active
    /\ row \in 1..Len(selection_list)
    /\ row # list_selection
    /\ list_selection' = row
    /\ UNCHANGED <<loadVars, selected_entities, selected_segments, selection_list,
                   canvasVars, modeVars, boardVars>>

\* the entry at position idx (counted from 0) of a selection map is deleted,
\* if there is one (lines 2154-2163)
RemoveAt(selection, idx) ==
    IF idx < Len(selection)
    THEN [k \in 1..(Len(selection) - 1) |->
            IF k <= idx THEN selection[k] ELSE selection[k + 1]]
    ELSE selection

\* remove_selection (lines 2144-2167) with a row selected
RemoveSelection ==
    /\ ~rubber_band_active
    /\ list_selection # 0
    /\ LET idx == list_selection - 1
       IN  /\ selected_entities' =
                 IF app_mode = "zone" THEN RemoveAt(selected_entities, idx)
                 ELSE selected_entities
           /\ selected_segments' =
                 IF app_mode = "zone" THEN selected_segments
                 ELSE RemoveAt(selected_segments, idx)
    /\ selection_list' = update_selection_list(entities, app_mode, selected_entities',
                                               selected_segments')
    /\ list_selection' = 0
    /\ UNCHANGED <<loadVars, canvasVars, modeVars, boardVars>>

\* change_entity_type (lines 2120-2142) with a row selected; the handler
\* returns early outside zone mode or with nothing selected, and ends in an
\* IndexError when the row has no entry
ChangeEntityType ==
    /\ ~rubber_band_active
    /\ list_selection # 0
    /\ LET idx == list_selection - 1
           acts == app_mode = "zone" /\ selected_entities # <<>>
                   /\ idx < Len(selected_entities)
       IN  /\ selected_entities' =
                 IF acts
                 THEN [selected_entities EXCEPT ![idx + 1].outer = ~@]
                 ELSE selected_entities
           /\ selection_list' =
                 IF acts
                 THEN update_selection_list(entities, app_mode, selected_entities',
                                            selected_segments)
                 ELSE selection_list
           /\ list_selection' = IF acts THEN 0 ELSE list_selection
    /\ UNCHANGED <<loadVars, selected_segments, canvasVars, modeVars, boardVars>>

(* The board: select_board_file, process_selections, save_board *)

\* update_net_dropdown (lines 437-472): the first net name, or the
\* placeholder when the board has no named net
update_net_dropdown(b) == IF b.nets > 0 THEN "GND" ELSE "No nets found"

\* select_board_file (lines 420-435) with a file chosen: board_file is set
\* before pcbnew.LoadBoard is tried; when LoadBoard raises (~ok) the board and
\* the net dropdown stay as they were
SelectBoardFile(f, ok, nets) ==
    /\ board_file' = f
    /\ board' = IF ok THEN LoadBoard(nets) ELSE board
    /\ net_name_var' = IF ok THEN update_net_dropdown(LoadBoard(nets)) ELSE net_name_var
    /\ UNCHANGED <<written, loadVars, selectVars, canvasVars, modeVars>>

\* add_cutout_to_zone (lines 2248-2291) adds a rule area unless it raises
\* first: points is bound only for CIRCLE and LWPOLYLINE, points[0] needs a
\* point, and a malformed entity raises on attribute access
AddsKeepout_AnyType(e) == ~e.bad
AddsKeepout(e) ==
    /\ ~e.bad
    /\ \/ e.type = "CIRCLE"
       \/ e.type = "LWPOLYLINE" /\ (e.pts # <<>> \/ e.ring # <<>>)

\* the inner loop of process_selections (lines 2317-2322): the rule areas
\* added for one zone; a raising add_cutout_to_zone is caught
RECURSIVE CutoutsFrom(_, _, _)
CutoutsFrom(ents, inner, j) ==
    IF j > Len(inner) THEN 0
    ELSE (IF AddsKeepout(EntityOf(ents, inner[j].ent)) THEN 1 ELSE 0)
         + CutoutsFrom(ents, inner, j + 1)

\* create_zone_for_entity (lines 2218-2246) reads the attributes of a CIRCLE
\* or LWPOLYLINE only
ZoneRaises(e) == e.bad /\ e.type \in {"CIRCLE", "LWPOLYLINE"}

\* the loop over the outer entities (lines 2312-2325) from the k-th on, then
\* the zone fill (lines 2328-2329).  raiseAt: the pcbnew call that raises,
\* 0 = none, k = the creation of the k-th zone, Len(outer) + 1 = the fill
RECURSIVE ZonesFrom(_, _, _, _, _, _)
ZonesFrom(b, ents, outer, inner, k, raiseAt) ==
    IF k > Len(outer) THEN [board |-> b, raised |-> raiseAt = k]
    ELSE IF raiseAt = k \/ ZoneRaises(EntityOf(ents, outer[k].ent))
    THEN [board |-> b, raised |-> TRUE]
    ELSE ZonesFrom([b EXCEPT !.keepouts = @ + CutoutsFrom(ents, inner, 1),
                             !.zones = @ + 1],
                   ents, outer, inner, k + 1, raiseAt)

\* process_selections(board, selections, net_name) (lines 2293-2330)
process_selections(b, ents, selections, netFound, raiseAt) ==
    LET IsOuter(entry) == entry.outer
        IsInner(entry) == ~entry.outer
    IN  IF selections = <<>> \/ ~netFound THEN [board |-> b, raised |-> FALSE]
        ELSE ZonesFrom(b, ents, SelectSeq(selections, IsOuter),
                       SelectSeq(selections, IsInner), 1, raiseAt)

\* process_line_selections in line mode (lines 1692-1765): one track for
\* each selected segment; raiseAt: the track whose creation raises, 0 = none
process_line_selections(b, sel_segments, netFound, raiseAt) ==
    IF ~netFound THEN [board |-> b, raised |-> FALSE]
    ELSE IF raiseAt \in 1..Len(sel_segments)
    THEN [board |-> [b EXCEPT !.tracks = @ + raiseAt - 1], raised |-> TRUE]
    ELSE [board |-> [b EXCEPT !.tracks = @ + Len(sel_segments)], raised |-> FALSE]

\* the net names process_selections refuses (line 1672)
NoNetNames == {"", "No board loaded", "No nets found"}

\* KicadDxfApp.process_selections (lines 1657-1690): the refusals, then the
\* processing for the current mode inside try/except; returns nothing
ProcessSelections(netFound, raiseAt) ==
    LET refused ==
            IF ~board.loaded THEN "no board"
            ELSE IF app_mode = "zone" /\ selected_entities = <<>> THEN "no selection"
            ELSE IF app_mode = "line" /\ selected_segments = <<>> THEN "no selection"
            ELSE IF net_name_var \in NoNetNames THEN "no net"
            ELSE ""
        done == IF app_mode = "zone"
                THEN process_selections(board, entities, selected_entities,
                                        netFound, raiseAt)
                ELSE process_line_selections(board, selected_segments,
                                             netFound, raiseAt)
    IN  IF refused # "" THEN [refused |-> refused, board |-> board, raised |-> FALSE]
        ELSE [refused |-> "", board |-> done.board, raised |-> done.raised]

\* the inputs that matter to one run: whether board.FindNet finds the net
\* (asked only when the run is not refused) and which pcbnew call raises
\* (only when the net is found)
Refused == ProcessSelections(TRUE, 0).refused # ""
NetOutcomes == IF Refused THEN {TRUE} ELSE BOOLEAN
RaisePoints(netFound) ==
    IF Refused \/ ~netFound THEN {0}
    ELSE IF app_mode = "zone"
    THEN 0..(Cardinality({k \in 1..Len(selected_entities) : selected_entities[k].outer}) + 1)
    ELSE 0..Len(selected_segments)
\* pcbnew.SaveBoard is called only when there is a board
SaveOutcomes == IF board.loaded THEN BOOLEAN ELSE {TRUE}

\* save_board (lines 2064-2081) and save_board_as (2083-2104) write the board
\* b to file f unless there is no board, no file name or SaveBoard raises
Writes(b, f, saveOk) == b.loaded /\ f # 0 /\ saveOk
SaveBoard(b, f, saveOk) ==
    IF Writes(b, f, saveOk) THEN [file |-> f, board |-> b] ELSE written

\* process_and_save (lines 2106-2109): process_selections(), then save_board()
ProcessAndSave(netFound, raiseAt, saveOk) ==
    LET o == ProcessSelections(netFound, raiseAt)
    IN  /\ board' = o.board
        /\ written' = SaveBoard(o.board, board_file, saveOk)
        /\ UNCHANGED <<board_file, net_name_var, loadVars, selectVars, canvasVars,
                       modeVars>>

\* process_and_save_as (lines 2111-2114): process_selections(), then
\* save_board_as(), whose dialog gives the file f (0: cancelled)
ProcessAndSaveAs(netFound, raiseAt, f, saveOk) ==
    LET o == ProcessSelections(netFound, raiseAt)
    IN  /\ board' = o.board
        /\ written' = SaveBoard(o.board, f, saveOk)
        /\ board_file' = IF Writes(o.board, f, saveOk) THEN f ELSE board_file
        /\ UNCHANGED <<net_name_var, loadVars, selectVars, canvasVars, modeVars>>

(* A session of the application: any sequence of loads and setting changes, *)
(* over the drawings SessionFiles and the library outcomes SessionKernels   *)

Load == LoadFrom(SessionFiles, SessionKernels)
EditTolerance == SetGapTolerance(SessionTolerances)

Next == Load \/ EditTolerance \/ ToggleHealGaps

Spec == Init /\ [][Next]_vars

(* One load from the state after construction, with any settings, over all  *)
(* drawings and all library outcomes within the bounds                      *)

FirstLoad == dxf_file = 0 /\ LoadFrom(Files, Kernels)
FirstTolerance == dxf_file = 0 /\ SetGapTolerance(Tolerances)
FirstToggle == dxf_file = 0 /\ ToggleHealGaps

NextLoad == FirstLoad \/ FirstTolerance \/ FirstToggle

LoadSpec == Init /\ [][NextLoad]_vars

(* A session of loads, mode switches, clicks, rubber band selections and    *)
(* uses of the selection list, with the settings of construction, over the  *)
(* drawings UiFiles.  While the mouse button is held after a press on an    *)
(* empty spot, the next handler to run is the release.  In the state a load *)
(* leaves, event names the load and the number of entries the selection     *)
(* maps held when it began; every other handler leaves NoEvent.             *)

UiFiles == {3, 9}

Noted(name) ==
    event' = [NoEvent EXCEPT !.name = name,
                             !.held = Len(selected_entities) + Len(selected_segments)]
Unnoted == event' = NoEvent

UiLoad == ~rubber_band_active /\ SelectDxfFile(UiFiles, {NoKernel}) /\ Noted("load")
UiMode ==
    ~rubber_band_active /\ Unnoted /\ \E m \in {"zone", "line"} : SelectMode(m)
UiBoundaryType ==
    /\ ~rubber_band_active /\ Unnoted
    /\ \E v \in {"outer", "inner"} : SetBoundaryType(v)
UiClickEntity ==
    /\ Unnoted
    /\ \E items \in SUBSET (1..Len(canvas_entities)), ctrl, shift \in BOOLEAN :
          ClickEntity(items, ctrl, shift)
UiClickSegment ==
    /\ Unnoted
    /\ \E item \in 1..Len(segment_entities), ctrl, shift \in BOOLEAN :
          ClickSegment(item, ctrl, shift)
UiPress == Unnoted /\ \E ctrl, shift \in BOOLEAN : StartRubberBand(ctrl, shift)
UiRelease == Unnoted /\ OnCanvasRelease
UiSelectRow == Unnoted /\ \E row \in 1..Len(selection_list) : SelectRow(row)
UiRemove == Unnoted /\ RemoveSelection
UiChangeType == Unnoted /\ ChangeEntityType

UiNext ==
    \/ UiLoad
    \/ UiMode
    \/ UiBoundaryType
    \/ UiClickEntity
    \/ UiClickSegment
    \/ UiPress
    \/ UiRelease
    \/ UiSelectRow
    \/ UiRemove
    \/ UiChangeType

UiSpec == Init /\ [][UiNext]_vars

(* A session of one load followed by mode switches and clicks, in which     *)
(* event records the last mode switch or click: the handler, the entity or  *)
(* segment clicked, the modifier keys, the number of entries the selection  *)
(* maps held when the handler began (held) and whether the clicked one was  *)
(* among them (had); turn changes with every recorded handler               *)

Observed(name, key, ctrl, shift) ==
    event' = [name |-> name, key |-> key, ctrl |-> ctrl, shift |-> shift,
              held |-> Len(selected_entities) + Len(selected_segments),
              had |-> \/ HasEntity(selected_entities, key.ent)
                      \/ HasSegment(selected_segments, key),
              outcome |-> NoProcess,
              turn |-> 1 - event.turn]

SeenMode == \E m \in {"zone", "line"} : SelectMode(m) /\ Observed("mode", NoKey, FALSE, FALSE)
SeenClickEntity ==
    \E items \in SUBSET (1..Len(canvas_entities)), ctrl, shift \in BOOLEAN :
        /\ ClickEntity(items, ctrl, shift)
        /\ Observed("click", SegmentKey(ClickedEntity(items), 0), ctrl, shift)
SeenClickSegment ==
    \E item \in 1..Len(segment_entities), ctrl, shift \in BOOLEAN :
        /\ ClickSegment(item, ctrl, shift)
        /\ Observed("click", segment_entities[item], ctrl, shift)

ClickLoad == dxf_file = 0 /\ LoadFrom(UiFiles, {NoKernel})
ClickBoundaryType ==
    UNCHANGED event /\ \E v \in {"outer", "inner"} : SetBoundaryType(v)

ClickNext ==
    \/ ClickLoad
    \/ ClickBoundaryType
    \/ SeenMode
    \/ SeenClickEntity
    \/ SeenClickSegment

ClickSpec == Init /\ [][ClickNext]_vars

(* A session with a board: one load of the drawing SaveFiles (a circle and  *)
(* a line 0.0003 mm from it) at the default tolerance or at SaveTolerances, *)
(* one choice of a board file of BoardFiles, selections by clicks, and uses *)
(* of Save and Save As (to a file of OtherFiles, or cancelled: 0).  In the  *)
(* state a Save or Save As leaves, event holds what it did: the refusal,    *)
(* whether the net was found, whether the processing raised, whether the    *)
(* board was written.                                                       *)

SaveFiles == {6}
SaveTolerances == {3}
BoardFiles == {1}
OtherFiles == {2}

\* the first segment of each of the first two entities
FirstItems ==
    {item \in 1..Len(segment_entities) :
        segment_entities[item].seg = 0 /\ segment_entities[item].ent.pos <= 2}

BoardItems(b) == b.zones + b.keepouts + b.tracks

NotedSave(netFound, raiseAt, f, saveOk) ==
    LET o == ProcessSelections(netFound, raiseAt)
    IN  event' = [NoEvent EXCEPT
                     !.name = "save",
                     !.outcome = [refused |-> o.refused, netFound |-> netFound,
                                  raised |-> o.raised,
                                  wrote |-> Writes(o.board, f, saveOk)]]

SaveTolerance == dxf_file = 0 /\ event = NoEvent /\ SetGapTolerance(SaveTolerances)
SaveLoad == dxf_file = 0 /\ SelectDxfFile(SaveFiles, {NoKernel}) /\ Unnoted
SaveClickEntity ==
    /\ Unnoted
    /\ \E item \in 1..Len(canvas_entities), ctrl, shift \in BOOLEAN :
          ClickEntity({item}, ctrl, shift)
SaveClickSegment ==
    /\ Unnoted
    /\ \E item \in FirstItems, ctrl, shift \in BOOLEAN : ClickSegment(item, ctrl, shift)
SaveSelectBoard ==
    /\ board_file = 0 /\ Unnoted
    /\ \E f \in BoardFiles, ok \in BOOLEAN, nets \in 0..1 : SelectBoardFile(f, ok, nets)
SaveProcess ==
    /\ BoardItems(board) < MaxBoardItems
    /\ \E netFound \in NetOutcomes, saveOk \in SaveOutcomes :
       \E raiseAt \in RaisePoints(netFound) :
          /\ ProcessAndSave(netFound, raiseAt, saveOk)
          /\ NotedSave(netFound, raiseAt, board_file, saveOk)
SaveProcessAs ==
    /\ BoardItems(board) < MaxBoardItems
    /\ \E netFound \in NetOutcomes, saveOk \in SaveOutcomes,
          f \in {0} \cup OtherFiles :
       \E raiseAt \in RaisePoints(netFound) :
          /\ ProcessAndSaveAs(netFound, raiseAt, f, saveOk)
          /\ NotedSave(netFound, raiseAt, f, saveOk)

SaveNext ==
    \/ SaveTolerance
    \/ SaveLoad
    \/ UiMode
    \/ UiBoundaryType
    \/ SaveClickEntity
    \/ SaveClickSegment
    \/ SaveSelectBoard
    \/ SaveProcess
    \/ SaveProcessAs

SaveSpec == Init /\ [][SaveNext]_vars

(* One load with the settings of construction (healing on, tolerance 0.001) *)
(* of a drawing of two lines 0.0005 mm apart                                *)

PairLoad == dxf_file = 0 /\ LoadFrom(PairFiles, SessionKernels)

PairSpec == Init /\ [][PairLoad]_vars

-----------------------------------------------------------------------------
(* Properties *)

R == last.result

\* load_dxf_with_healing ran and got past reading the file
HealingLoad == last.file # 0 /\ last.heal /\ last.read1ok

\* the healed list the library outcome of the last load stands for
FullHealed == BuildHealed(SortByArea(Polygons(last.kernel)))

IsHealedEntity(e) == e.ring # <<>>

\* C1: the gap count returned by load_dxf_with_healing is 0 whenever healing
\* was skipped or reverted, and non-zero only when healed rings were accepted
C1_GapCountZeroUnlessAccepted ==
    (HealingLoad /\ ~R.raised) => (R.gap_count # 0 => R.path = "healed")

\* the endpoint pairs find_close_points has to report
GapPair(points, tolerance, i, j) ==
    /\ i < j
    /\ points[i].seg # points[j].seg
    /\ 0 < Dist2(points[i].pt, points[j].pt)
    /\ Dist2(points[i].pt, points[j].pt) < tolerance * tolerance

GapPairs(points, tolerance) ==
    {p \in (1..Len(points)) \X (1..Len(points)) :
        GapPair(points, tolerance, p[1], p[2])}

\* the records find_close_points returned for drawing d with tolerance t are
\* the pairs it has to report, each once, with the points and segments of
\* the pair
GapsExact(d, t) ==
    LET points == Endpoints(Extracted[d])
        issues == Gaps[d][t]
    IN  /\ {<<issues[k].i, issues[k].j>> : k \in 1..Len(issues)} = GapPairs(points, t)
        /\ Cardinality({<<issues[k].i, issues[k].j>> : k \in 1..Len(issues)})
              = Len(issues)
        /\ \A k \in 1..Len(issues) :
              /\ issues[k].pt1 = points[issues[k].i].pt
              /\ issues[k].pt2 = points[issues[k].j].pt
              /\ issues[k].seg1 = points[issues[k].i].seg
              /\ issues[k].seg2 = points[issues[k].j].seg

GapsExactTable ==
    <<>> \o [d \in Files |-> <<>> @@ [t \in Tolerances |-> GapsExact(d, t)]]

\* C2: find_close_points returns exactly one record for every unordered pair
\* of endpoints of different segments at a distance d with 0 < d < tolerance,
\* and nothing else
C2_FindClosePointsExact ==
    (HealingLoad /\ R.detector) =>
        /\ segments = Extracted[last.file]
        /\ last.gaps = Len(Gaps[last.file][last.tolerance])
        /\ GapsExactTable[last.file][last.tolerance]

\* a load in which the detector reported a gap, skipped a coincident pair of
\* different segments and skipped the two ends of one short segment
C2_Witness ==
    /\ HealingLoad /\ R.detector /\ last.gaps > 0
    /\ LET points == Endpoints(segments)
       IN  \E i, j \in 1..Len(points) :
              /\ i < j
              /\ points[i].seg = points[j].seg
              /\ IsClose(Dist2(points[i].pt, points[j].pt), last.tolerance)
              /\ \E m \in 1..Len(points) :
                    points[m].seg # points[i].seg /\ points[m].pt = points[i].pt

C4_ThresholdRevert ==
    (HealingLoad /\ R.path \in {"too_few", "healed"}) =>
        IF R.originals # <<>> /\ 2 * Len(R.built) < Len(R.originals)
        THEN R.entities = R.originals /\ R.gap_count = 0
        ELSE R.entities = R.built

\* C5: an error raised at any step of buffer / union / boundary / polygonize
\* is handled like "no rings formed": the load returns the preserved
\* originals and raises nothing
C5_GeometryErrorsAbsorbed ==
    (HealingLoad /\ R.path \in {"buffer_error", "polygon_error"}) =>
        ~R.raised /\ R.entities = R.originals

\* C6: on the accept path the list returned is one closed polyline per
\* exterior ring and per hole ring and a copy of every Circle of the
\* originals, and the gap count is the number of detected gap pairs
C6_AcceptedEntities ==
    (HealingLoad /\ R.path = "healed") =>
        /\ SelectSeq(R.entities, IsHealedEntity) = FullHealed
        /\ \A i \in 1..Len(R.entities) :
              IsHealedEntity(R.entities[i]) =>
                  R.entities[i].type = "LWPOLYLINE" /\ R.entities[i].closed
        /\ SelectSeq(R.entities, IsCircle) = CircleCopies(R.originals)
        /\ Len(R.entities) = Len(FullHealed) + Len(CircleCopies(R.originals))
        /\ R.gap_count = last.gaps

C8_EndToEndScenario ==
    (/\ HealingLoad /\ Drawings[last.file] = TwoLines
     /\ last.tolerance = DefaultTolerance /\ ~R.raised) =>
        /\ Len(find_close_points(Endpoints(segments), DefaultTolerance)) = 1
        /\ last.gaps = 1
        /\ R.entities = R.originals
        /\ R.gap_count = 0

\* C9: when extraction yields no segments the load returns an empty list and
\* gap count 0, raises nothing and runs neither the detector nor the healer
C9_NoSegments ==
    (HealingLoad /\ extract_segments_from_dxf(Drawings[last.file]) = <<>>) =>
        /\ R.entities = <<>> /\ R.gap_count = 0 /\ ~R.raised
        /\ ~R.detector /\ ~R.healer /\ ~R.buffered
        /\ entities = <<>> /\ segments = <<>>
        /\ ~last.announced

\* a drawing that is not empty and yields no segment
C9_Witness ==
    /\ HealingLoad /\ Drawings[last.file] # <<>>
    /\ segments = <<>> /\ R.path = "no_segments"

\* C10: the list a load with healing produces is either the complete healed
\* list or exactly the preserved originals, never a mixture or a part of the
\* healed list; a load that raises leaves the entity list as it was (empty
\* after construction)
C10_AllOrNothing ==
    (HealingLoad /\ R.healer) =>
        IF R.raised THEN entities = <<>>
        ELSE /\ entities = R.entities
             /\ \/ /\ R.entities = R.originals
                   /\ \A i \in 1..Len(R.entities) : ~IsHealedEntity(R.entities[i])
                \/ /\ R.entities = FullHealed
                   /\ FullHealed # <<>>
                   /\ last.kernel.raiseAt = 0

\* the healer had built one entity of several when it fell back
C10_Witness ==
    /\ HealingLoad /\ R.path = "polygon_error"
    /\ R.built # <<>> /\ Len(R.built) < Len(FullHealed)
    /\ R.originals # <<>>
    /\ entities = R.originals

\* the paths on which the healer gives up its own result and falls back
RevertPaths == {"no_polygons", "too_few", "polygon_error"}

\* C11: every revert path returns exactly the Circles and closed polylines of
\* the source drawing, whatever failed on the way; the list is never empty
\* when the drawing has such entities
C11_RevertSetIsSource ==
    (HealingLoad /\ R.healer /\ R.path \in RevertPaths) =>
        /\ ~R.raised
        /\ R.entities = load_dxf(Drawings[last.file])
        /\ load_dxf(Drawings[last.file]) # <<>> => R.entities # <<>>


\* a ring as a set of undirected edges (zero-length edges do not count)
EdgeSet(segs) ==
    {{segs[i][1], segs[i][2]} : i \in {k \in 1..Len(segs) : segs[k][1] # segs[k][2]}}

IsRing(e) == ~e.bad /\ (IsCircle(e) \/ IsClosedPolyline(e))

\* the rings of a list of entities, one per Circle and per closed polyline
RingsOf(ents) ==
    LET rings == SelectSeq(ents, IsRing)
    IN  [i \in 1..Len(rings) |-> EdgeSet(EntitySegments(rings[i]))]

\* the same rings, each the same number of times, in any order
SameRings(a, b) ==
    /\ Len(a) = Len(b)
    /\ \A r \in {a[i] : i \in 1..Len(a)} \cup {b[i] : i \in 1..Len(b)} :
          Cardinality({i \in 1..Len(a) : a[i] = r})
              = Cardinality({i \in 1..Len(b) : b[i] = r})

\* a drawing made of Circles and closed polylines only
RingDrawing(msp) == msp # <<>> /\ \A i \in 1..Len(msp) : IsRing(msp[i])

\* C12: a load of a drawing without gaps returns gap count 0 and the rings
\* of the drawing, each exactly once (stated for the drawings that consist
\* of Circles and closed polylines, where every input entity is one ring)
C12_NoOpHealingIdempotent ==
    (/\ HealingLoad /\ R.detector /\ last.gaps = 0 /\ ~R.raised
     /\ RingDrawing(Drawings[last.file])) =>
        /\ R.gap_count = 0
        /\ SameRings(RingsOf(R.entities), RingsOf(Drawings[last.file]))

\* C13: two Circles 1 mm apart loaded with healing on and tolerance 0.001
\* give gap count 0 and exactly two entities
C13_NoFalseMerge ==
    (/\ HealingLoad /\ ~R.raised
     /\ last.tolerance = DefaultTolerance
     /\ Drawings[last.file] = <<Circle(<<5000, 5000>>, 5000),
                                Circle(<<25000, 5000>>, 5000)>>) =>
        /\ R.gap_count = 0
        /\ Len(R.entities) = 2


\* the pairs of an end of the first segment and an end of the second that
\* are closer than the tolerance and not coincident
CrossClose(segs, tolerance) ==
    {p \in (1..2) \X (1..2) :
        /\ 0 < Dist2(segs[1][p[1]], segs[2][p[2]])
        /\ Dist2(segs[1][p[1]], segs[2][p[2]]) < tolerance * tolerance}

\* the detector ran on two segments whose nearest ends are tolerance/2 apart
HalfToleranceLoad ==
    /\ HealingLoad /\ R.detector
    /\ last.tolerance = DefaultTolerance
    /\ Len(segments) = 2
    /\ 4 * NearestDist2(segments) = last.tolerance * last.tolerance

\* C14 (as stated): two segments whose nearest end points are exactly
\* tolerance/2 apart are reported as exactly one gap
C14_ExactlyOneGap == HalfToleranceLoad => last.gaps = 1

\* C14 (amended): two segments whose nearest end points are exactly
\* tolerance/2 apart are reported as one gap per pair of their end points
\* closer than the tolerance: at least one, and exactly one when no second
\* pair of end points of the two segments is within the tolerance
C14_GapPerClosePair ==
    HalfToleranceLoad =>
        /\ last.gaps >= 1
        /\ last.gaps = Cardinality(CrossClose(segments, last.tolerance))
        /\ Cardinality(CrossClose(segments, last.tolerance)) = 1 => last.gaps = 1

\* the nearest ends are the end of the first and the start of the second
\* segment, and they are the only close pair
C14_Witness ==
    /\ HalfToleranceLoad /\ last.gaps = 1
    /\ Dist2(segments[1][2], segments[2][1]) = 25


\* the exterior polylines of a list of healed entities, in order
IsExterior(e) == IsHealedEntity(e) /\ e.ring[3] = 0
Exteriors(ents) == SelectSeq(ents, IsExterior)

\* the areas of the polygons the library outcome of the last load holds
KernelAreas ==
    LET polys == Polygons(last.kernel)
    IN  {polys[i].area : i \in 1..Len(polys)}

\* C15: in the accepted healed result the first entity is the exterior of
\* the largest polygon, and no exterior has a larger area than one before it
C15_LargestFirst ==
    (HealingLoad /\ R.path = "healed") =>
        /\ R.entities # <<>>
        /\ IsExterior(R.entities[1])
        /\ \A a \in KernelAreas : R.entities[1].area >= a
        /\ LET ext == Exteriors(R.entities)
           IN  /\ Len(ext) = Len(Polygons(last.kernel))
               /\ \A i, j \in 1..Len(ext) : i < j => ext[i].area >= ext[j].area

\* accepted polygons that polygonize returned smallest first, the larger one
\* with a hole
C15_Witness ==
    /\ HealingLoad /\ R.path = "healed"
    /\ LET polys == Polygons(last.kernel)
       IN  /\ Len(polys) = 2
           /\ polys[1].area < polys[2].area
           /\ polys[2].holes > 0
    /\ R.entities[1].area > R.entities[Len(R.entities)].area


\* the part of the segment list segs that entity i of the drawing msp appended
EntitySlice(msp, segs, i) ==
    SubSeq(segs, Len(extract_segments_from_dxf(SubSeq(msp, 1, i - 1))) + 1,
                 Len(extract_segments_from_dxf(SubSeq(msp, 1, i))))

\* each segment ends where the next begins
Chained(s) == \A k \in 1..(Len(s) - 1) : s[k][2] = s[k + 1][1]

\* the segments segs of drawing msp have the fixed tessellation counts
TessellationOk(msp, segs) ==
    \A i \in 1..Len(msp) :
        LET e == msp[i]
            s == EntitySlice(msp, segs, i)
        IN  ~e.bad =>
              /\ e.type = "LINE" => s = <<<<e.pts[1], e.pts[2]>>>>
              /\ e.type = "ARC" => Len(s) = 24 /\ Chained(s)
              /\ e.type = "CIRCLE" =>
                    /\ Len(s) = 36 /\ Chained(s)
                    /\ s[36][2] = s[1][1]
                    /\ s[1][1] = <<e.center[1] + e.radius, e.center[2]>>

TessellationTable == <<>> \o [d \in Files |-> TessellationOk(Drawings[d], Extracted[d])]

\* C16: extraction yields 1 segment per Line, 24 per Arc and 36 per Circle,
\* the segments of one entity are chained, and the last Circle segment ends
\* at the first sample point
C16_TessellationCounts ==
    (HealingLoad /\ R.assigned) =>
        /\ segments = Extracted[last.file]
        /\ TessellationTable[last.file]

\* a drawing with an Arc, a Line and a Circle was extracted
C16_Witness ==
    /\ HealingLoad /\ R.assigned
    /\ LET msp == Drawings[last.file]
       IN  /\ \E i \in 1..Len(msp) : msp[i].type = "ARC"
           /\ \E i \in 1..Len(msp) : msp[i].type = "LINE"
           /\ \E i \in 1..Len(msp) : msp[i].type = "CIRCLE"
    /\ Len(segments) = 61

\* the number of segments the claim gives a polyline with the stored points pts
PolylineCount(pts, closed) ==
    IF closed /\ pts[1] # pts[Len(pts)] THEN Len(pts) ELSE Len(pts) - 1

PolylinesOk(msp, segs) ==
    \A i \in 1..Len(msp) :
        LET e == msp[i]
        IN  (~e.bad /\ e.type = "LWPOLYLINE" /\ Len(e.pts) >= 1) =>
                Len(EntitySlice(msp, segs, i)) = PolylineCount(e.pts, e.closed)

PolylinesTable == <<>> \o [d \in Files |-> PolylinesOk(Drawings[d], Extracted[d])]

\* C17: a polyline with n stored points yields n-1 segments, and one more
\* when it is closed and its first and last stored points differ
C17_PolylineSegments ==
    (HealingLoad /\ R.assigned) =>
        /\ segments = Extracted[last.file]
        /\ PolylinesTable[last.file]

\* does the entity take one of the branches that append segments
Contributes(e) == ~e.bad /\ e.type \in {"LINE", "ARC", "CIRCLE", "LWPOLYLINE"}

\* the skipped entities of msp left no segment in segs and changed none of
\* the others'
SkipsOk(msp, segs) ==
    /\ segs = extract_segments_from_dxf(SelectSeq(msp, Contributes))
    /\ \A i \in 1..Len(msp) :
          EntitySlice(msp, segs, i) =
              IF Contributes(msp[i]) THEN extract_segments_from_dxf(<<msp[i]>>)
              ELSE <<>>

SkipsTable == <<>> \o [d \in Files |-> SkipsOk(Drawings[d], Extracted[d])]

\* C18: an entity of unrecognized type or one whose processing raises
\* contributes no segment, does not end the pass, and leaves the segments of
\* the entities before and after it as they are without it
C18_BadEntitySkipped ==
    (HealingLoad /\ \E i \in 1..Len(Drawings[last.file]) :
                       ~Contributes(Drawings[last.file][i])) =>
        /\ R.assigned
        /\ segments = Extracted[last.file]
        /\ SkipsTable[last.file]
        /\ R.path # "read_error"

\* a polyline that raised, followed by a line and a polyline that were
\* extracted
C18_Witness ==
    /\ HealingLoad /\ R.assigned
    /\ Len(Drawings[last.file]) = 3
    /\ Drawings[last.file][1].bad
    /\ Len(Drawings[last.file][1].pts) > 1
    /\ Len(segments) = 3


\* C19: after a load that succeeded, the segment list the application holds
\* (if it holds one) was extracted from the drawing that was loaded
C19_SegmentsOfActiveDrawing ==
    (last.file # 0 /\ ~R.raised) =>
        (segments = <<>> \/ segments = Extracted[last.file])

\* a load with healing on whose initial read of the file fails
ReadErrorStep == last' # last /\ last'.heal /\ ~last'.read1ok

\* C20: when the initial read of the file fails, load_dxf_with_healing raises
\* and returns no entity list, and the entity list of the application stays
\* as it was
C20_ReadErrorIsFatal ==
    [][ReadErrorStep =>
          /\ last'.result.raised
          /\ last'.result.entities = <<>>
          /\ last'.result.path = "read_error"
          /\ ~last'.announced
          /\ entities' = entities]_vars

\* the read of a file failed while the entities of another drawing were
\* active, and they still are
C20_Witness ==
    /\ last.file # 0 /\ last.heal /\ ~last.read1ok /\ R.raised
    /\ entities # <<>>
    /\ entities # load_dxf(Drawings[last.file])

-----------------------------------------------------------------------------
(* The detector on connected outlines, and against the buffer distance *)

\* the gaps find_close_points reports among the segments of one entity
EntityGaps(msp, segs, i, t) ==
    find_close_points(Endpoints(EntitySlice(msp, segs, i)), t)

\* no entity of msp whose segments are chained has a gap within itself
ChainsOk(msp, segs, t) ==
    \A i \in 1..Len(msp) :
        LET s == EntitySlice(msp, segs, i)
        IN  (s # <<>> /\ Chained(s)) => EntityGaps(msp, segs, i, t) = <<>>

ChainsTable ==
    <<>> \o [d \in Files |->
                <<>> @@ [t \in Tolerances |-> ChainsOk(Drawings[d], Extracted[d], t)]]

\* the drawing is one entity, tessellated into a connected chain
IsOneChain(d) ==
    /\ Len(Drawings[d]) = 1
    /\ Extracted[d] # <<>>
    /\ Chained(Extracted[d])

\* C28: the detector reports no gap among the segments of one connected
\* chain (one tessellated polyline, arc or circle), whatever the tolerance,
\* and a drawing that is one such chain never reaches the healer
C28_ConnectedChainNoGap ==
    (HealingLoad /\ R.detector) =>
        /\ ChainsTable[last.file][last.tolerance]
        /\ IsOneChain(last.file) => (last.gaps = 0 /\ ~R.healer)

\* every reported gap of drawing d at tolerance t is narrower than twice the
\* buffer distance
BridgeableTable ==
    <<>> \o [d \in Files |->
                <<>> @@ [t \in Tolerances |->
                            \A k \in 1..Len(Gaps[d][t]) :
                                Gaps[d][t][k].dist2 <
                                    (2 * BufferDistance(t)) * (2 * BufferDistance(t))]]

\* C29 as stated: at every tolerance > 0 every counted gap is narrower than
\* twice the buffer distance min(tolerance, 0.0005)
C29_GapsWithinTwiceBuffer ==
    (HealingLoad /\ R.detector /\ last.tolerance > 0) =>
        BridgeableTable[last.file][last.tolerance]

\* C29 amended: at every tolerance from above 0 up to 0.001 (twice the cap of
\* the buffer distance) every counted gap is narrower than twice the buffer
\* distance; at any tolerance it is narrower than the tolerance
C29_GapsWithinTwiceBufferUpToCap ==
    (HealingLoad /\ R.detector /\ last.tolerance > 0) =>
        /\ last.tolerance <= 2 * BufferCap => BridgeableTable[last.file][last.tolerance]
        /\ \A k \in 1..Len(Gaps[last.file][last.tolerance]) :
              Gaps[last.file][last.tolerance][k].dist2 < last.tolerance * last.tolerance

\* the detector counted a gap as wide as the buffer distance or wider, at a
\* tolerance above the cap of the buffer distance
C29_Witness ==
    /\ HealingLoad /\ R.detector
    /\ last.tolerance > BufferCap /\ last.tolerance <= 2 * BufferCap
    /\ last.gaps > 0
    /\ \E k \in 1..Len(Gaps[last.file][last.tolerance]) :
          Gaps[last.file][last.tolerance][k].dist2 >= BufferCap * BufferCap

-----------------------------------------------------------------------------
(* Mode switch and clicks (ClickSpec) *)

\* a step of the handler named name
Handled(name) == event'.turn # event.turn /\ event'.name = name

\* C22: a mode switch between zone and line empties both selection maps; an
\* update_mode_ui call that finds the mode unchanged leaves both as they are
C22_ModeSwitchClears ==
    [][Handled("mode") =>
          IF app_mode' # app_mode
          THEN selected_entities' = <<>> /\ selected_segments' = <<>>
          ELSE UNCHANGED <<selected_entities, selected_segments>>]_vars

\* the mode was switched to line while entities were selected
C22_Witness ==
    /\ event.name = "mode" /\ event.held > 0
    /\ app_mode = "line" /\ previous_mode = "line"
    /\ selected_entities = <<>> /\ selected_segments = <<>>
    /\ selection_list = <<>>
    /\ segment_entities # <<>>

\* the value of an entity's entry in a zone selection map ("none": no entry)
EntryOf(selection, id) ==
    IF HasEntity(selection, id)
    THEN LET k == CHOOSE k \in 1..Len(selection) : selection[k].ent = id
         IN  IF selection[k].outer THEN "outer" ELSE "inner"
    ELSE "none"

\* every entity object a map of the session may hold
AllEntityIds == {EntityId(l, i) : l \in BOOLEAN, i \in 1..Len(entities)}

\* C24: a click on an entity in zone mode, by modifier: Ctrl leaves it
\* unselected; Shift without Ctrl leaves it selected with the current boundary
\* type; a plain click selects it with the current boundary type if it was not
\* selected and unselects it if it was.  No other entry changes.
C24_ZoneClickOneEntry ==
    [][(Handled("click") /\ app_mode = "zone") =>
          LET id == event'.key.ent
              was == EntryOf(selected_entities, id)
              is == EntryOf(selected_entities', id)
          IN  /\ event'.ctrl => is = "none"
              /\ (event'.shift /\ ~event'.ctrl) => is = boundary_type_var
              /\ (~event'.shift /\ ~event'.ctrl) =>
                    is = (IF was = "none" THEN boundary_type_var ELSE "none")
              /\ \A other \in AllEntityIds \ {id} :
                    EntryOf(selected_entities', other) =
                        EntryOf(selected_entities, other)
              /\ selected_segments' = selected_segments]_vars

\* a Ctrl-click removed one of several selected entities
C24_Witness ==
    /\ event.name = "click" /\ app_mode = "zone"
    /\ event.ctrl /\ event.had /\ event.held = 3
    /\ ~HasEntity(selected_entities, event.key.ent)
    /\ Len(selected_entities) = 2
    /\ selected_entities[1].outer # selected_entities[2].outer

KeysOf(selection) == {selection[k] : k \in 1..Len(selection)}

\* C25: in line mode a plain click leaves exactly the clicked segment
\* selected, or nothing when it was the only selected one; a Ctrl-click adds
\* no segment and a Shift-click removes none
C25_LineClickSingle ==
    [][(Handled("click") /\ app_mode = "line") =>
          LET key == event'.key
          IN  /\ (~event'.ctrl /\ ~event'.shift) =>
                    /\ selected_segments' =
                          IF selected_segments = <<key>> THEN <<>> ELSE <<key>>
                    /\ Len(selected_segments') <= 1
              /\ event'.ctrl => KeysOf(selected_segments') \subseteq KeysOf(selected_segments)
              /\ (event'.shift /\ ~event'.ctrl) =>
                    KeysOf(selected_segments) \subseteq KeysOf(selected_segments')
              /\ selected_entities' = selected_entities]_vars

\* a plain click on an unselected segment replaced a selection of two
C25_Witness ==
    /\ event.name = "click" /\ app_mode = "line"
    /\ ~event.ctrl /\ ~event.shift
    /\ event.held = 2 /\ ~event.had
    /\ selected_segments = <<event.key>>
    /\ Len(selection_list) = 1

-----------------------------------------------------------------------------
(* Loads within a session of selections (UiSpec) *)

\* C23: a load_and_display_dxf call with a file path leaves both selection
\* maps empty, whether the load succeeded or raised, and a load that raised
\* leaves the entity list as it was
C23_LoadClearsSelections ==
    [][event'.name = "load" =>
          /\ selected_entities' = <<>>
          /\ selected_segments' = <<>>
          /\ last'.result.raised => entities' = entities]_vars

\* a load raised while entities of the active drawing were selected: the
\* selection is gone and the drawing is still active
C23_Witness ==
    /\ event.name = "load" /\ event.held > 1
    /\ last.result.raised
    /\ entities # <<>> /\ canvas_entities # <<>>
    /\ selected_entities = <<>> /\ selected_segments = <<>>

\* an entity object of the current entity list
IsCurrent(id) == id.listed /\ id.pos \in 1..Len(entities)

\* C27: every key of selected_entities is an entity of the current entity
\* list, and every key of selected_segments refers to one
C27_SelectionsOfCurrentList ==
    /\ \A k \in 1..Len(selected_entities) : IsCurrent(selected_entities[k].ent)
    /\ \A k \in 1..Len(selected_segments) : IsCurrent(selected_segments[k].ent)

\* a load replaced the entity list while segments of the list it replaced
\* were selected
C27_Witness ==
    /\ event.name = "load" /\ event.held > 1
    /\ ~last.result.raised /\ entities # <<>>
    /\ app_mode = "line" /\ segment_entities # <<>>
    /\ selected_segments = <<>>

\* C30: the rows of the selection list are those of the entries of the active
\* mode's selection map, one to one and in order
C30_ListMatchesSelection ==
    selection_list =
        update_selection_list(entities, app_mode, selected_entities, selected_segments)

-----------------------------------------------------------------------------
(* Processing and saving (SaveSpec) *)

\* C21: Save and Save As write the board only when the selection was turned
\* into zones or tracks: not when the processing was refused, did not find
\* the net, or raised
C21_WrittenOnlyAfterProcessing ==
    (event.name = "save" /\ event.outcome.wrote) =>
        /\ event.outcome.refused = ""
        /\ event.outcome.netFound
        /\ ~event.outcome.raised

\* the selected entries with the given boundary type whose entity has one of
\* the given types
Selected(outer, types) ==
    {k \in 1..Len(selected_entities) :
        /\ selected_entities[k].outer = outer
        /\ EntityOf(entities, selected_entities[k].ent).type \in types}

AnyType == {"CIRCLE", "LWPOLYLINE", "LINE", "ARC"}

\* C26: a zone generation run that is not refused and does not raise adds
\* one zone per selected outer entity and, for each of them, one rule area
\* per selected inner circle or polyline; it adds nothing when the net is
\* not found
C26_ZonesAndKeepouts ==
    [][(/\ event'.name = "save" /\ app_mode = "zone"
        /\ event'.outcome.refused = "" /\ ~event'.outcome.raised) =>
          LET outer == Cardinality(Selected(TRUE, AnyType))
              inner == Cardinality(Selected(FALSE, {"CIRCLE", "LWPOLYLINE"}))
          IN  IF event'.outcome.netFound
              THEN board' = [board EXCEPT !.zones = @ + outer,
                                          !.keepouts = @ + outer * inner]
              ELSE board' = board]_vars

\* two zones were made, for the polyline and the line or the circle and the
\* line, each with the other closed outline as its rule area
C26_Witness ==
    /\ event.name = "save" /\ app_mode = "zone"
    /\ event.outcome.refused = "" /\ event.outcome.netFound /\ ~event.outcome.raised
    /\ Cardinality(Selected(TRUE, AnyType)) = 2
    /\ Cardinality(Selected(TRUE, {"LINE"})) = 1
    /\ Cardinality(Selected(FALSE, {"CIRCLE", "LWPOLYLINE"})) = 1
    /\ board.zones = 2 /\ board.keepouts = 2
    /\ written.board = board


====
